---- MODULE Spec2Model ----
(***************************************************************************)
(* Model of the ID allocator (MetadataManager, src/metadata_manager.py),   *)
(* of its persistence to the metadata JSON document, and of the row        *)
(* generators that draw ID ranges from it (src/data_generators.py), of the *)
(* uploader that splits a DataFrame into files (src/s3_uploader.py) and of *)
(* the run over a list of tables (src/main.py).                            *)
(*                                                                         *)
(* The in-memory dict self.metadata is a function from table name to an    *)
(* entry record [last_id |-> n].  The JSON document on disk is a function  *)
(* of the same shape whose entries may also carry the legacy key           *)
(* existing_ids; json.dump / json.load keep this structure (string keys,   *)
(* integer values, integer lists), the migration in _load_metadata is      *)
(* what changes the content.                                               *)
(***************************************************************************)
EXTENDS Integers, Sequences, FiniteSets, TLC

VARIABLES
    metadata,   \* self.metadata of the live MetadataManager
    exists,     \* os.path.exists(self.metadata_file)
    file,       \* parsed content of the metadata file (meaningful when exists)
    issued,     \* per table and id: number of generated rows that carry the id
    last,       \* the most recent call on the allocator, with its outcome
    prev,       \* the call before it, when the specification keeps two calls
    upload,     \* the most recent upload_dataframe call, with its outcome
    run         \* the progress of SyntheticDataApplications.run

vars == <<metadata, exists, file, issued, last, prev, upload, run>>

----------------------------------------------------------------------------
(* Bounds *)

MaxId == 2          \* largest last_id / id value the inputs produce
MaxCount == 2       \* largest count asked of get_next_id_range
MaxLegacyId == 2    \* largest id in the existing_ids of a legacy document
MaxLegacyLen == 2   \* longest existing_ids list of a legacy document
MaxRows == 4        \* most rows of an uploaded DataFrame
MaxLimitMb == 2     \* largest file_size_limit_in_mb
MaxSampleHalfMb == 4 \* largest encoded sample, in half megabytes

----------------------------------------------------------------------------
(* Tables *)

\* the tables of the default structure
TableNames == {"users", "orders", "products"}

\* a table name that is not registered
UnknownName == "customers"

Names == TableNames \cup {UnknownName}

Max2(a, b) == IF a >= b THEN a ELSE b

Min2(a, b) == IF a <= b THEN a ELSE b

\* Python max() over a non-empty list
RECURSIVE ListMax(_)
ListMax(s) ==
    IF Len(s) = 1 THEN s[1] ELSE Max2(s[1], ListMax(Tail(s)))

\* list(range(start, stop)); empty when stop <= start
RangeList(start, stop) ==
    [i \in 1..Max2(stop - start, 0) |-> start + i - 1]

Elems(s) == {s[i] : i \in DOMAIN s}

\* strictly increasing lists of at most n ids drawn from 1..m
AscLists(m, n) ==
    {s \in UNION {[1..k -> 1..m] : k \in 0..n} :
        \A i \in DOMAIN s : i > 1 => s[i - 1] < s[i]}

\* lists of at most n distinct ids drawn from 1..m, in any order
DistinctLists(m, n) ==
    {s \in UNION {[1..k -> 1..m] : k \in 0..n} :
        \A i, j \in DOMAIN s : i /= j => s[i] /= s[j]}

----------------------------------------------------------------------------
(* Persistence *)

\* variant of DefaultMetadata: the products entry is left out
DefaultMetadata_NoProducts ==
    [t \in {"users", "orders"} |-> [last_id |-> 0]]

\* the structure returned when the metadata file does not exist
DefaultMetadata == [t \in TableNames |-> [last_id |-> 0]]

\* variant of MigrateEntry: the list is dropped, the stored last_id is kept
MigrateEntry_KeepStored(table_data) ==
    IF "existing_ids" \in DOMAIN table_data
    THEN [last_id |-> table_data.last_id]
    ELSE table_data

\* the legacy-format migration applied to one entry of the loaded document
MigrateEntry(table_data) ==
    IF "existing_ids" \in DOMAIN table_data
    THEN [last_id |->
            IF table_data.existing_ids /= <<>>
            THEN ListMax(table_data.existing_ids)
            ELSE table_data.last_id]
    ELSE table_data

\* variant of load_metadata: the test on the file's existence is inverted
load_metadata_Inverted(file_exists, content) ==
    IF ~file_exists
    THEN [t \in DOMAIN content |-> MigrateEntry(content[t])]
    ELSE DefaultMetadata

load_metadata(file_exists, content) ==
    IF file_exists
    THEN [t \in DOMAIN content |-> MigrateEntry(content[t])]
    ELSE DefaultMetadata

----------------------------------------------------------------------------
(* Call records *)

NoRange == [start |-> 0, stop |-> 0]

NoCall ==
    [op |-> "none", table_name |-> "", arg |-> 0, new_ids |-> <<>>,
     raised |-> "", pre |-> 0, ret |-> 0, ret_range |-> NoRange,
     ret_list |-> <<>>, rows |-> <<>>]

\* values of prev under a specification that keeps less than two calls:
\* only which call was made, or the last call with arguments and outcome
KeepBrief == [NoCall EXCEPT !.op = "keep_brief"]

KeepOne == [NoCall EXCEPT !.op = "keep_one"]

Call(op, table_name) ==
    [NoCall EXCEPT !.op = op, !.table_name = table_name,
                   !.pre = IF table_name \in DOMAIN metadata
                           THEN metadata[table_name].last_id ELSE -1]

\* what a specification that keeps no arguments or results sees of a call
Brief(call) ==
    [NoCall EXCEPT !.op = call.op, !.table_name = call.table_name,
                   !.raised = call.raised]

Record(call) ==
    /\ last' = IF prev = KeepBrief THEN Brief(call) ELSE call
    /\ prev' = IF prev \in {KeepBrief, KeepOne} THEN prev ELSE last

----------------------------------------------------------------------------
(* MetadataManager: what each method computes *)

\* variants of NextIdRange: the range starts at last_id; the range is one short
NextIdRange_FromLastId(md, table_name, count) ==
    [start |-> md[table_name].last_id,
     stop  |-> md[table_name].last_id + count]

NextIdRange_Short(md, table_name, count) ==
    [start |-> md[table_name].last_id + 1,
     stop  |-> md[table_name].last_id + count]

\* range(start_id, end_id) of get_next_id_range
NextIdRange(md, table_name, count) ==
    [start |-> md[table_name].last_id + 1,
     stop  |-> md[table_name].last_id + 1 + count]

\* the dict after update_last_id
WithLastId(md, table_name, last_id) ==
    [md EXCEPT ![table_name] = [@ EXCEPT !.last_id = last_id]]

\* the list get_existing_ids returns
ExistingIds(md, table_name) ==
    IF md[table_name].last_id = 0
    THEN <<>>
    ELSE RangeList(1, md[table_name].last_id + 1)

\* variant of RandomExistingIds: randint(0, last_id)
RandomExistingIds_FromZero(md, table_name) == 0..md[table_name].last_id

\* the values random.randint(1, last_id) can return
RandomExistingIds(md, table_name) == 1..md[table_name].last_id

\* the value get_existing_id_count returns
ExistingIdCount(md, table_name) == md[table_name].last_id

\* variants of WithGeneratedIds: new_ids[0] in place of max(new_ids);
\* no guard against going backwards
WithGeneratedIds_First(md, table_name, new_ids) ==
    [md EXCEPT ![table_name] =
        [@ EXCEPT !.last_id = Max2(@, new_ids[1])]]

WithGeneratedIds_NoGuard(md, table_name, new_ids) ==
    [md EXCEPT ![table_name] =
        [@ EXCEPT !.last_id = ListMax(new_ids)]]

\* the dict after add_generated_ids with a non-empty list
WithGeneratedIds(md, table_name, new_ids) ==
    [md EXCEPT ![table_name] =
        [@ EXCEPT !.last_id = Max2(@, ListMax(new_ids))]]

----------------------------------------------------------------------------
(* MetadataManager: the calls *)

\* MetadataManager(metadata_file): a new manager loads the document
init_manager ==
    /\ metadata' = load_metadata(exists, file)
    /\ Record([Call("init", "") EXCEPT !.pre = 0])
    /\ UNCHANGED <<exists, file, issued, upload, run>>

save_metadata ==
    /\ exists' = TRUE
    /\ file' = metadata
    /\ Record([Call("save_metadata", "") EXCEPT !.pre = 0])
    /\ UNCHANGED <<metadata, issued, upload, run>>

\* variant of get_next_id_range: the reserved range is committed at once
get_next_id_range_Reserving(table_name, count) ==
    /\ IF table_name \in DOMAIN metadata
       THEN /\ metadata' = WithLastId(metadata, table_name,
                                      metadata[table_name].last_id + count)
            /\ Record([Call("get_next_id_range", table_name) EXCEPT
                         !.arg = count,
                         !.ret_range = NextIdRange(metadata, table_name, count)])
       ELSE /\ metadata' = metadata
            /\ Record([Call("get_next_id_range", table_name) EXCEPT
                         !.arg = count, !.raised = "KeyError"])
    /\ UNCHANGED <<exists, file, issued, upload, run>>

get_next_id_range(table_name, count) ==
    /\ IF table_name \in DOMAIN metadata
       THEN Record([Call("get_next_id_range", table_name) EXCEPT
                      !.arg = count,
                      !.ret_range = NextIdRange(metadata, table_name, count)])
       ELSE Record([Call("get_next_id_range", table_name) EXCEPT
                      !.arg = count, !.raised = "KeyError"])
    /\ UNCHANGED <<metadata, exists, file, issued, upload, run>>

update_last_id(table_name, last_id) ==
    /\ IF table_name \in DOMAIN metadata
       THEN /\ metadata' = WithLastId(metadata, table_name, last_id)
            /\ Record([Call("update_last_id", table_name) EXCEPT
                         !.arg = last_id])
       ELSE /\ metadata' = metadata
            /\ Record([Call("update_last_id", table_name) EXCEPT
                         !.arg = last_id, !.raised = "KeyError"])
    /\ UNCHANGED <<exists, file, issued, upload, run>>

get_existing_ids(table_name) ==
    /\ IF table_name \in DOMAIN metadata
       THEN Record([Call("get_existing_ids", table_name) EXCEPT
                      !.ret_list = ExistingIds(metadata, table_name)])
       ELSE Record([Call("get_existing_ids", table_name) EXCEPT
                      !.raised = "KeyError"])
    /\ UNCHANGED <<metadata, exists, file, issued, upload, run>>

\* variant of get_random_existing_id: no test for last_id == 0, 0 is returned
get_random_existing_id_NoCheck(table_name) ==
    /\ IF table_name \notin DOMAIN metadata
       THEN Record([Call("get_random_existing_id", table_name) EXCEPT
                      !.raised = "KeyError"])
       ELSE \E k \in IF metadata[table_name].last_id = 0
                     THEN {0}
                     ELSE RandomExistingIds(metadata, table_name) :
                Record([Call("get_random_existing_id", table_name) EXCEPT
                          !.ret = k])
    /\ UNCHANGED <<metadata, exists, file, issued, upload, run>>

get_random_existing_id(table_name) ==
    /\ IF table_name \notin DOMAIN metadata
       THEN Record([Call("get_random_existing_id", table_name) EXCEPT
                      !.raised = "KeyError"])
       ELSE IF metadata[table_name].last_id = 0
       THEN Record([Call("get_random_existing_id", table_name) EXCEPT
                      !.raised = "ValueError"])
       ELSE \E k \in RandomExistingIds(metadata, table_name) :
                Record([Call("get_random_existing_id", table_name) EXCEPT
                          !.ret = k])
    /\ UNCHANGED <<metadata, exists, file, issued, upload, run>>

get_existing_id_count(table_name) ==
    /\ IF table_name \in DOMAIN metadata
       THEN Record([Call("get_existing_id_count", table_name) EXCEPT
                      !.ret = ExistingIdCount(metadata, table_name)])
       ELSE Record([Call("get_existing_id_count", table_name) EXCEPT
                      !.raised = "KeyError"])
    /\ UNCHANGED <<metadata, exists, file, issued, upload, run>>

add_generated_ids(table_name, new_ids) ==
    /\ IF new_ids = <<>>
       THEN /\ metadata' = metadata
            /\ Record([Call("add_generated_ids", table_name) EXCEPT
                         !.new_ids = new_ids])
       ELSE IF table_name \in DOMAIN metadata
       THEN /\ metadata' = WithGeneratedIds(metadata, table_name, new_ids)
            /\ Record([Call("add_generated_ids", table_name) EXCEPT
                         !.new_ids = new_ids])
       ELSE /\ metadata' = metadata
            /\ Record([Call("add_generated_ids", table_name) EXCEPT
                         !.new_ids = new_ids, !.raised = "KeyError"])
    /\ UNCHANGED <<exists, file, issued, upload, run>>

----------------------------------------------------------------------------
(* Generators (data_generators.py): allocate, build the rows, commit *)

NoneIssued == [t \in TableNames |-> [k \in 1..(MaxId + MaxCount) |-> 0]]

\* the rows of one generated DataFrame carry the ids of new_ids
WithRows(iss, table_name, new_ids) ==
    [iss EXCEPT ![table_name] =
        [k \in DOMAIN @ |-> IF k \in Elems(new_ids) THEN @[k] + 1 ELSE @[k]]]

\* the largest num_items of an order
MaxItems == 5

\* variant of ProductSamples: random.choices, which may repeat a product
ProductSamples_WithRepeats(existing_product_ids) ==
    UNION {[1..Min2(num_items, Len(existing_product_ids))
                -> Elems(existing_product_ids)] : num_items \in 1..MaxItems}

\* random.sample(existing_product_ids, min(num_items, len(...))): the lists
\* of that many distinct products, for every num_items
ProductSamples(existing_product_ids) ==
    {s \in UNION {[1..Min2(num_items, Len(existing_product_ids))
                      -> Elems(existing_product_ids)] :
                  num_items \in 1..MaxItems} :
        \A i, j \in DOMAIN s : i /= j => s[i] /= s[j]}

\* the foreign keys the loop of generate_orders can write into the rows of
\* ids: random.choice of a user and a sample of products for each order
OrderLineSets(ids) ==
    LET keys == [user_id : Elems(ExistingIds(metadata, "users")),
                 products : ProductSamples(ExistingIds(metadata, "products"))]
    IN  {[k \in DOMAIN ids |-> [order_id |-> ids[k],
                                user_id |-> f[k].user_id,
                                products |-> f[k].products]] :
            f \in [DOMAIN ids -> keys]}

\* the foreign keys of the rows of a DataFrame; they are drawn where the
\* specification keeps the call in full, and touch no other state
RowSets(table_name, ids) ==
    IF table_name = "orders" /\ prev /= KeepBrief
    THEN OrderLineSets(ids)
    ELSE {<<>>}

\* variant of GenerateRows: the rows are returned without the commit
GenerateRows_Uncommitted(op, table_name, num_rows) ==
    LET id_range == NextIdRange(metadata, table_name, num_rows)
        ids == RangeList(id_range.start, id_range.stop)
    IN  /\ metadata' = metadata
        /\ issued' = WithRows(issued, table_name, ids)
        /\ \E rows \in RowSets(table_name, ids) :
               Record([Call(op, table_name) EXCEPT
                         !.arg = num_rows, !.ret_list = ids, !.rows = rows,
                         !.raised = IF ids = <<>> THEN "ValueError" ELSE ""])

\* the body shared by generate_users, generate_products and generate_orders
\* from get_next_id_range to the return
GenerateRows(op, table_name, num_rows) ==
    LET id_range == NextIdRange(metadata, table_name, num_rows)
        ids == RangeList(id_range.start, id_range.stop)
    IN  IF ids = <<>>
        THEN \* max(id_range) of an empty range
             /\ metadata' = metadata
             /\ issued' = issued
             /\ Record([Call(op, table_name) EXCEPT
                          !.arg = num_rows, !.raised = "ValueError"])
        ELSE /\ metadata' = WithGeneratedIds(
                                WithLastId(metadata, table_name, ListMax(ids)),
                                table_name, ids)
             /\ issued' = WithRows(issued, table_name, ids)
             /\ \E rows \in RowSets(table_name, ids) :
                    Record([Call(op, table_name) EXCEPT
                              !.arg = num_rows, !.ret_list = ids,
                              !.rows = rows])

generate_users(num_rows) ==
    /\ GenerateRows("generate_users", "users", num_rows)
    /\ UNCHANGED <<exists, file, upload, run>>

generate_products(num_rows) ==
    /\ GenerateRows("generate_products", "products", num_rows)
    /\ UNCHANGED <<exists, file, upload, run>>

\* variant of OrderRows: the existing users and products are not looked up
OrderRows_NoLookup(num_rows) ==
    GenerateRows("generate_orders", "orders", num_rows)

\* generate_orders: the foreign keys are looked up before the range is asked
OrderRows(num_rows) ==
    IF \/ ExistingIds(metadata, "users") = <<>>
       \/ ExistingIds(metadata, "products") = <<>>
    THEN /\ metadata' = metadata
         /\ issued' = issued
         /\ Record([Call("generate_orders", "orders") EXCEPT
                      !.arg = num_rows, !.raised = "ValueError"])
    ELSE GenerateRows("generate_orders", "orders", num_rows)

generate_orders(num_rows) ==
    /\ OrderRows(num_rows)
    /\ UNCHANGED <<exists, file, upload, run>>

\* the next process: run() has saved the metadata before the process ended
\* (main.py:141), and the new MetadataManager loads what was saved
next_run ==
    /\ exists
    /\ file = metadata
    /\ last.op = "save_metadata"
    /\ init_manager

----------------------------------------------------------------------------
(* S3Uploader (s3_uploader.py): planning the chunks, naming and sending them *)

\* A DataFrame is the list of the ids of its rows.  Sizes are exact: the
\* float quotient of _split_dataframe_by_size is taken as the rational it
\* approximates, int() as its floor.

SampleRows == 1000

BytesPerMb == 1024 * 1024

DefaultRowsPerMb == 1000

\* file_size_limit_in_mb = None
NoLimit == -1

\* chunk_size of _split_dataframe_by_size
ChunkSize(sample_size, sample_bytes, size_limit_mb) ==
    IF sample_bytes > 0
    THEN (sample_size * BytesPerMb * size_limit_mb) \div sample_bytes
    ELSE DefaultRowsPerMb * size_limit_mb

\* the loop over range(0, len(df), chunk_size) for chunk_size > 0
RECURSIVE Slices(_, _)
Slices(df, chunk_size) ==
    IF df = <<>>
    THEN <<>>
    ELSE <<SubSeq(df, 1, Min2(chunk_size, Len(df)))>>
         \o Slices(SubSeq(df, chunk_size + 1, Len(df)), chunk_size)

\* _split_dataframe_by_size once the sample is encoded to sample_bytes bytes;
\* range() raises ValueError on a zero step and is empty on a negative one
SplitDataframe(df, size_limit_mb, sample_bytes) ==
    LET chunk_size == ChunkSize(Min2(SampleRows, Len(df)), sample_bytes,
                                size_limit_mb)
    IN  [chunk_size |-> chunk_size,
         raised |-> IF chunk_size = 0 THEN "ValueError" ELSE "",
         chunks |-> IF chunk_size > 0 THEN Slices(df, chunk_size) ELSE <<>>]

DigitChars == <<"0", "1", "2", "3", "4", "5", "6", "7", "8", "9">>

\* the decimal digits of n >= 0
RECURSIVE Decimal(_)
Decimal(n) ==
    IF n < 10
    THEN <<DigitChars[n + 1]>>
    ELSE Decimal(n \div 10) \o <<DigitChars[(n % 10) + 1]>>

\* the format {n:03d}
Pad3(n) ==
    LET d == Decimal(n)
    IN  [j \in 1..(3 - Len(d)) |-> "0"] \o d

\* variant of ChunkKey: the ordinal is the 0-based index
ChunkKey_ZeroBased(table_name, timestamp, i) ==
    <<table_name, "/", timestamp, "_part_">> \o Pad3(i) \o <<".parquet">>

\* the key of the chunk of index i of enumerate(chunks)
ChunkKey(table_name, timestamp, i) ==
    <<table_name, "/", timestamp, "_part_">> \o Pad3(i + 1) \o <<".parquet">>

SingleKey(table_name, timestamp) ==
    <<table_name, "/", timestamp, ".parquet">>

\* temp_file of _upload_single_file
TempPath(key) ==
    <<"/tmp/">> \o [j \in DOMAIN key |-> IF key[j] = "/" THEN "_" ELSE key[j]]

\* temp_file of _split_dataframe_by_size
SamplePath == <<"/tmp/sample.parquet">>

\* What fails during one call: nothing; to_parquet of the sample (in which
\* case the file may or may not have been created); os.path.getsize; the
\* to_parquet of the file number at; the upload_file of the file number at.
NoFault == [kind |-> "none", at |-> 0, leaves |-> FALSE]

\* the loop of _upload_single_file calls over the files to send
SendFiles(keys, fault) ==
    LET n == Len(keys)
        f == IF fault.kind \in {"encode", "transport"} /\ fault.at \in 1..n
             THEN fault.at ELSE n + 1
    IN  [put |-> SubSeq(keys, 1, f - 1),
         left |-> IF f <= n /\ fault.kind = "encode" /\ fault.leaves
                  THEN {TempPath(keys[f])} ELSE {},
         raised |-> IF f > n THEN ""
                    ELSE IF fault.kind = "encode" THEN "OSError"
                    ELSE "S3UploadFailedError"]

NoUpload ==
    [op |-> "none", table_name |-> "", df |-> <<>>, limit |-> NoLimit,
     timestamp |-> "", planned |-> FALSE, chunk_size |-> 0,
     plan_raised |-> "", chunks |-> <<>>, keys |-> <<>>, put |-> <<>>,
     left |-> {}, raised |-> ""]

\* upload_dataframe: the call with its outcome.  planned: the sample was
\* encoded and measured and the chunks were computed or range() raised;
\* keys: the returned list; put: the keys sent to the bucket, in order;
\* left: the temporary files that exist when the call ends
UploadResult(df, table_name, limit, timestamp, sample_bytes, fault) ==
    LET call == [NoUpload EXCEPT !.op = "upload_dataframe",
                                 !.table_name = table_name, !.df = df,
                                 !.limit = limit, !.timestamp = timestamp]
    IN  IF limit = NoLimit
        THEN LET sent == SendFiles(<<SingleKey(table_name, timestamp)>>, fault)
             IN  [call EXCEPT !.put = sent.put, !.left = sent.left,
                              !.raised = sent.raised,
                              !.keys = IF sent.raised = "" THEN sent.put
                                       ELSE <<>>]
        ELSE IF fault.kind = "sample_encode"
        THEN [call EXCEPT !.raised = "OSError",
                          !.left = IF fault.leaves THEN {SamplePath} ELSE {}]
        ELSE IF fault.kind = "sample_measure"
        THEN [call EXCEPT !.raised = "OSError"]
        ELSE LET plan == SplitDataframe(df, limit, sample_bytes)
                 keys == [k \in DOMAIN plan.chunks |->
                              ChunkKey(table_name, timestamp, k - 1)]
                 sent == SendFiles(keys, fault)
             IN  IF plan.raised /= ""
                 THEN [call EXCEPT !.planned = TRUE,
                                   !.chunk_size = plan.chunk_size,
                                   !.plan_raised = plan.raised,
                                   !.raised = plan.raised]
                 ELSE [call EXCEPT !.planned = TRUE,
                                   !.chunk_size = plan.chunk_size,
                                   !.chunks = plan.chunks,
                                   !.put = sent.put, !.left = sent.left,
                                   !.raised = sent.raised,
                                   !.keys = IF sent.raised = "" THEN sent.put
                                            ELSE <<>>]

\* What the environment decides during a call

\* sizes of the encoded sample: an empty file, or a number of half megabytes
SampleBytes == {k * (BytesPerMb \div 2) : k \in 0..MaxSampleHalfMb}

\* datetime.now(timezone.utc) formatted to the minute
Timestamps == {"202505301430", "202505301431"}

\* the faults that can occur in a call: the sample is encoded and measured
\* only under a limit, and there are no more files than rows, or one file
\* without a limit
Faults(df, limit) ==
    LET files == IF limit = NoLimit THEN 1 ELSE Len(df)
    IN  {NoFault}
        \cup {[kind |-> "sample_encode", at |-> 0, leaves |-> b] :
                  b \in IF limit = NoLimit THEN {} ELSE BOOLEAN}
        \cup {[kind |-> "sample_measure", at |-> 0, leaves |-> FALSE] :
                  b \in IF limit = NoLimit THEN {} ELSE {FALSE}}
        \cup {[kind |-> "encode", at |-> k, leaves |-> b] :
                  k \in 1..files, b \in BOOLEAN}
        \cup {[kind |-> "transport", at |-> k, leaves |-> FALSE] :
                  k \in 1..files}

Environment(df, limit) ==
    [timestamp : Timestamps,
     sample_bytes : IF limit = NoLimit THEN {0} ELSE SampleBytes,
     fault : Faults(df, limit)]

upload_dataframe(df, table_name, limit) ==
    /\ \E env \in Environment(df, limit) :
           upload' = UploadResult(df, table_name, limit, env.timestamp,
                                  env.sample_bytes, env.fault)
    /\ UNCHANGED <<metadata, exists, file, issued, last, prev, run>>

NoRun ==
    [pc |-> "idle", table_names |-> <<>>, num_rows |-> 0, limit |-> NoLimit,
     i |-> 0, saves |-> 0, log |-> <<>>]

----------------------------------------------------------------------------
(* SyntheticDataApplications (main.py): one run over a list of tables *)

\* run: the position of the run in its loop.  log has one entry per table
\* processed so far: what became of it and the ids of the rows generated for
\* it; saves counts the save_metadata calls of the run.

\* self.generators
Generators == {"users", "orders", "products"}

\* DataGenerator.generate_data: the method generate_<table_name>
GenerateData(table_name, num_rows) ==
    IF table_name = "orders"
    THEN OrderRows(num_rows)
    ELSE GenerateRows(IF table_name = "users" THEN "generate_users"
                      ELSE "generate_products", table_name, num_rows)

Entry(table_name, outcome, rows) ==
    [table_name |-> table_name, outcome |-> outcome, rows |-> rows]

\* variant of Advance: the first table that is skipped or fails ends the loop
Advance_StopOnFailure(entry) ==
    run' = [run EXCEPT !.i = IF entry.outcome = "uploaded" THEN @ + 1
                              ELSE Len(run.table_names),
                       !.log = Append(@, entry)]

\* the loop goes on to the next table, after `continue` as after the upload
Advance(entry) ==
    run' = [run EXCEPT !.i = @ + 1, !.log = Append(@, entry)]

\* main(): a new application loads the metadata and run() starts
start_run(table_names, num_rows, limit) ==
    /\ run.pc = "idle"
    /\ metadata' = load_metadata(exists, file)
    /\ Record([Call("init", "") EXCEPT !.pre = 0])
    /\ upload' = NoUpload
    /\ run' = [NoRun EXCEPT !.pc = "loop", !.table_names = table_names,
                            !.num_rows = num_rows, !.limit = limit]
    /\ UNCHANGED <<exists, file, issued>>

\* one iteration of the loop of run(): the table is skipped, or generated and
\* uploaded; an exception of either is caught
run_table ==
    /\ run.pc = "loop"
    /\ run.i < Len(run.table_names)
    /\ LET table_name == run.table_names[run.i + 1]
       IN  IF table_name \notin Generators
           THEN /\ Advance(Entry(table_name, "skipped", <<>>))
                /\ UNCHANGED <<metadata, exists, file, issued, last, prev,
                               upload>>
           ELSE /\ GenerateData(table_name, run.num_rows)
                /\ IF last'.raised /= ""
                   THEN /\ upload' = upload
                        /\ Advance(Entry(table_name, "generation_failed",
                                         <<>>))
                   ELSE LET df == SelectSeq(
                                RangeList(1, MaxId + MaxCount + 1),
                                LAMBDA k : issued'[table_name][k]
                                           > issued[table_name][k])
                        IN  \E env \in Environment(df, run.limit) :
                              /\ upload' = UploadResult(df, table_name,
                                               run.limit, env.timestamp,
                                               env.sample_bytes, env.fault)
                              /\ Advance(Entry(table_name,
                                     IF upload'.raised = "" THEN "uploaded"
                                     ELSE "upload_failed", df))
                /\ UNCHANGED <<exists, file>>

\* variant of run_save: nothing is saved when a table failed
run_save_UnlessFailed ==
    /\ run.pc = "loop"
    /\ run.i = Len(run.table_names)
    /\ IF \E k \in DOMAIN run.log : run.log[k].outcome /= "uploaded"
       THEN /\ run' = [run EXCEPT !.pc = "done"]
            /\ UNCHANGED <<exists, file, last, prev>>
       ELSE /\ exists' = TRUE
            /\ file' = metadata
            /\ Record([Call("save_metadata", "") EXCEPT !.pre = 0])
            /\ run' = [run EXCEPT !.pc = "done", !.saves = @ + 1]
    /\ UNCHANGED <<metadata, issued, upload>>

\* the end of run(): save_metadata after the loop
run_save ==
    /\ run.pc = "loop"
    /\ run.i = Len(run.table_names)
    /\ exists' = TRUE
    /\ file' = metadata
    /\ Record([Call("save_metadata", "") EXCEPT !.pre = 0])
    /\ run' = [run EXCEPT !.pc = "done", !.saves = @ + 1]
    /\ UNCHANGED <<metadata, issued, upload>>

----------------------------------------------------------------------------
(* Inputs *)

\* the model stops generating rows once a table holds MaxId ids
last_id_room(table_name, n) ==
    metadata[table_name].last_id + n <= MaxId

Counts == 0..MaxCount

LastIds == 0..MaxId

IdLists == AscLists(MaxId, MaxCount)

\* entries of a persisted document in the current shape
CurrentEntries == {[last_id |-> n] : n \in {0, MaxId}}

\* entries in the legacy shape; the stored last_id may be stale
LegacyEntries ==
    {[last_id |-> n, existing_ids |-> s] :
        n \in {0, MaxId}, s \in DistinctLists(MaxLegacyId, MaxLegacyLen)}

\* a legacy document written before any row was generated
EmptyLegacyDoc ==
    [t \in TableNames |-> [last_id |-> 0, existing_ids |-> <<>>]]

\* documents found on disk when the session starts: every table present,
\* all entries in the current shape, or a legacy document in which one
\* table holds ids
InitialDocs ==
    [TableNames -> CurrentEntries]
    \cup {[EmptyLegacyDoc EXCEPT ![t] = e] : t \in TableNames, e \in LegacyEntries}

\* --table-names: lists of registered and unknown names without repetition
TableLists ==
    {s \in UNION {[1..k -> Names] : k \in 0..Cardinality(Names)} :
        \A i, j \in DOMAIN s : i /= j => s[i] /= s[j]}

\* DataFrames of 0..MaxRows rows
Datasets == {RangeList(1, n + 1) : n \in 0..MaxRows}

Limits == {NoLimit} \cup 0..MaxLimitMb

\* --file-size-limit of a run: absent, or one megabyte
RunLimits == {NoLimit, 1}

----------------------------------------------------------------------------
(* Specifications *)

\* a session on the allocator with persistence; one call of history
Init ==
    /\ exists \in BOOLEAN
    /\ file \in IF exists THEN InitialDocs ELSE {DefaultMetadata}
    /\ metadata = load_metadata(exists, file)
    /\ issued = NoneIssued
    /\ last = [NoCall EXCEPT !.op = "init"]
    /\ prev = KeepBrief
    /\ upload = NoUpload
    /\ run = NoRun

Next ==
    \/ init_manager
    \/ save_metadata
    \/ \E t \in TableNames, v \in LastIds : update_last_id(t, v)
    \/ \E t \in TableNames, ids \in IdLists : add_generated_ids(t, ids)

Spec == Init /\ [][Next]_vars

\* the calls of one manager on a fresh state; the last call is kept in full
InitSeq ==
    /\ exists = FALSE
    /\ file = DefaultMetadata
    /\ metadata = load_metadata(exists, file)
    /\ issued = NoneIssued
    /\ last = [NoCall EXCEPT !.op = "init"]
    /\ prev = KeepOne
    /\ upload = NoUpload
    /\ run = NoRun

NextSeq ==
    \/ \E t \in Names, c \in Counts : get_next_id_range(t, c)
    \/ \E t \in Names, v \in LastIds : update_last_id(t, v)
    \/ \E t \in Names : get_existing_ids(t)
    \/ \E t \in Names : get_random_existing_id(t)
    \/ \E t \in Names : get_existing_id_count(t)
    \/ \E t \in Names, ids \in IdLists : add_generated_ids(t, ids)

SpecSeq == InitSeq /\ [][NextSeq]_vars

\* reserve and commit on a fresh state; the last two calls are kept in full
InitProto ==
    /\ exists = FALSE
    /\ file = DefaultMetadata
    /\ metadata = load_metadata(exists, file)
    /\ issued = NoneIssued
    /\ last = [NoCall EXCEPT !.op = "init"]
    /\ prev = NoCall
    /\ upload = NoUpload
    /\ run = NoRun

NextProto ==
    \/ \E t \in TableNames, c \in Counts : get_next_id_range(t, c)
    \/ \E t \in TableNames, ids \in IdLists : add_generated_ids(t, ids)

SpecProto == InitProto /\ [][NextProto]_vars

\* generation runs, each run saving before the next one starts
InitGen ==
    /\ exists = FALSE
    /\ file = DefaultMetadata
    /\ metadata = load_metadata(exists, file)
    /\ issued = NoneIssued
    /\ last = [NoCall EXCEPT !.op = "init"]
    /\ prev = KeepBrief
    /\ upload = NoUpload
    /\ run = NoRun

NextGen ==
    \/ \E n \in Counts : last_id_room("users", n) /\ generate_users(n)
    \/ \E n \in Counts : last_id_room("products", n) /\ generate_products(n)
    \/ \E n \in Counts : last_id_room("orders", n) /\ generate_orders(n)
    \/ save_metadata
    \/ next_run

SpecGen == InitGen /\ [][NextGen]_vars

\* the generators of one application on a fresh state; the last call is kept
\* in full, with the foreign keys of its rows
InitOrders ==
    /\ exists = FALSE
    /\ file = DefaultMetadata
    /\ metadata = load_metadata(exists, file)
    /\ issued = NoneIssued
    /\ last = [NoCall EXCEPT !.op = "init"]
    /\ prev = KeepOne
    /\ upload = NoUpload
    /\ run = NoRun

NextOrders ==
    \/ \E n \in Counts : last_id_room("users", n) /\ generate_users(n)
    \/ \E n \in Counts : last_id_room("products", n) /\ generate_products(n)
    \/ \E n \in Counts : last_id_room("orders", n) /\ generate_orders(n)

SpecOrders == InitOrders /\ [][NextOrders]_vars

\* one call of upload_dataframe per behaviour: the uploader keeps no state
\* from one call to the next
InitUpload ==
    /\ exists = FALSE
    /\ file = DefaultMetadata
    /\ metadata = load_metadata(exists, file)
    /\ issued = NoneIssued
    /\ last = [NoCall EXCEPT !.op = "init"]
    /\ prev = KeepBrief
    /\ upload = NoUpload
    /\ run = NoRun

NextUpload ==
    \E df \in Datasets, t \in TableNames, limit \in Limits :
        /\ upload = NoUpload
        /\ upload_dataframe(df, t, limit)

SpecUpload == InitUpload /\ [][NextUpload]_vars

\* one run of the application from a first start
InitRun ==
    /\ exists = FALSE
    /\ file = DefaultMetadata
    /\ metadata = load_metadata(exists, file)
    /\ issued = NoneIssued
    /\ last = [NoCall EXCEPT !.op = "init"]
    /\ prev = KeepBrief
    /\ upload = NoUpload
    /\ run = NoRun

NextRun ==
    \/ \E table_names \in TableLists, num_rows \in Counts,
          limit \in RunLimits :
           start_run(table_names, num_rows, limit)
    \/ run_table
    \/ run_save

SpecRun == InitRun /\ [][NextRun]_vars

----------------------------------------------------------------------------
(* Claims *)

\* C1: when get_next_id_range(T, n1) is followed by add_generated_ids(T, ids1)
\* with ids1 a non-empty list of ids of the returned range, and then by
\* get_next_id_range(T, n2), the second range starts at max(ids1) + 1.
C1_SecondRangeStartsAfterCommitted ==
    [][(/\ prev.op = "get_next_id_range"
        /\ prev.raised = ""
        /\ last.op = "add_generated_ids"
        /\ last.table_name = prev.table_name
        /\ last.new_ids /= <<>>
        /\ Elems(last.new_ids) \subseteq
               {k \in prev.ret_range.start..(prev.ret_range.stop - 1) : TRUE}
        /\ last'.op = "get_next_id_range"
        /\ last'.table_name = prev.table_name
        /\ prev' = last)
       => /\ last'.raised = ""
          /\ \A k \in Elems(last.new_ids) : k < last'.ret_range.start
          /\ last'.ret_range.start - 1 \in Elems(last.new_ids)]_vars

\* C1 witness: a range was asked right after a commit of new ids, and it
\* starts one past the largest committed id.
C1_Witness ==
    /\ prev.op = "add_generated_ids"
    /\ last.op = "get_next_id_range"
    /\ last.table_name = prev.table_name
    /\ prev.new_ids = <<1, 2>>
    /\ prev.pre = 0
    /\ last.arg = 2
    /\ last.ret_range = [start |-> 3, stop |-> 5]

\* C2: no step of a session lowers the last_id of a table.
C2_LastIdNeverDecreases ==
    [][\A t \in TableNames :
          metadata'[t].last_id >= metadata[t].last_id]_vars

\* C3: add_generated_ids leaves last_id at max(last_id, max(ids)) for
\* non-empty ids and unchanged for empty ids; when it directly follows an
\* add_generated_ids on the same table with a superset of its ids, last_id
\* keeps the value the first call left.
C3_CommitIsMaxAndIdempotent ==
    /\ (last.op = "add_generated_ids" /\ last.table_name \in TableNames)
       => /\ last.raised = ""
          /\ metadata[last.table_name].last_id >= last.pre
          /\ \A k \in Elems(last.new_ids) :
                 metadata[last.table_name].last_id >= k
          /\ metadata[last.table_name].last_id
                 \in {last.pre} \cup Elems(last.new_ids)
    /\ (/\ prev.op = "add_generated_ids"
        /\ last.op = "add_generated_ids"
        /\ last.table_name = prev.table_name
        /\ last.table_name \in TableNames
        /\ Elems(last.new_ids) \subseteq Elems(prev.new_ids))
       => metadata[last.table_name].last_id = last.pre

\* C3 witness: a commit of two new ids was followed by a commit of a proper,
\* non-empty subset of them.
C3_Witness ==
    /\ prev.op = "add_generated_ids"
    /\ last.op = "add_generated_ids"
    /\ last.table_name = prev.table_name
    /\ prev.new_ids = <<1, 2>>
    /\ prev.pre = 0
    /\ last.new_ids = <<1>>
    /\ last.pre = 2
    /\ metadata[last.table_name].last_id = 2

\* C4: across generation runs, each started from what the previous run
\* saved, every id of 1..last_id is carried by exactly one generated row of
\* the table and no other id by any, and get_existing_ids lists 1..last_id
\* in increasing order.
C4_IssuedIdsAreDense ==
    \A t \in TableNames :
        /\ \A k \in DOMAIN issued[t] :
               issued[t][k] = IF k <= metadata[t].last_id THEN 1 ELSE 0
        /\ Len(ExistingIds(metadata, t)) = metadata[t].last_id
        /\ \A i \in 1..metadata[t].last_id : ExistingIds(metadata, t)[i] = i

\* C4 witness: a run has extended the users, products and orders that an
\* earlier run saved.
C4_Witness ==
    /\ exists
    /\ file["users"].last_id = 1
    /\ file["products"].last_id = 2
    /\ file["orders"].last_id = 1
    /\ metadata["users"].last_id = 2
    /\ metadata["orders"].last_id = 2
    /\ issued["orders"][2] = 1
    /\ last.op = "generate_orders"

\* C5: get_next_id_range on a registered table returns the count consecutive
\* integers last_id+1 .. last_id+count in increasing order; on the fresh
\* state a range of 5 for users is 1..5 and, once these are committed, a
\* range of 3 is 6, 7, 8.
C5_RangeIsNextCountIds ==
    /\ (last.op = "get_next_id_range" /\ last.table_name \in TableNames)
       => LET ids == RangeList(last.ret_range.start, last.ret_range.stop)
          IN  /\ last.raised = ""
              /\ last.pre = metadata[last.table_name].last_id
              /\ Len(ids) = last.arg
              /\ \A i \in 1..last.arg : ids[i] = last.pre + i
    /\ (/\ prev.op = "add_generated_ids"
        /\ prev.pre = 0
        /\ prev.new_ids /= <<>>
        /\ \A i \in DOMAIN prev.new_ids : prev.new_ids[i] = i
        /\ last.op = "get_next_id_range"
        /\ last.table_name = prev.table_name)
       => /\ last.ret_range.start = Len(prev.new_ids) + 1
          /\ last.ret_range.stop = Len(prev.new_ids) + 1 + last.arg
    /\ LET first == NextIdRange(DefaultMetadata, "users", 5)
           committed == WithGeneratedIds(DefaultMetadata, "users",
                                         RangeList(first.start, first.stop))
           second == NextIdRange(committed, "users", 3)
       IN  /\ RangeList(first.start, first.stop) = <<1, 2, 3, 4, 5>>
           /\ ExistingIdCount(committed, "users") = 5
           /\ RangeList(second.start, second.stop) = <<6, 7, 8>>

\* C5 witness: on the fresh state the ids 1, 2 of users were committed and
\* the next range of one id is 3.
C5_Witness ==
    /\ prev.op = "add_generated_ids"
    /\ prev.table_name = "users"
    /\ prev.pre = 0
    /\ prev.new_ids = <<1, 2>>
    /\ last.op = "get_next_id_range"
    /\ last.table_name = "users"
    /\ last.arg = 1
    /\ last.ret_range = [start |-> 3, stop |-> 4]

\* C6: get_next_id_range leaves the metadata and the file as they are, and
\* a range asked right after another on the same table starts where that
\* one started.
C6_RangeChangesNoState ==
    [][last'.op = "get_next_id_range"
       => /\ metadata' = metadata
          /\ exists' = exists
          /\ file' = file
          /\ (/\ last.op = "get_next_id_range"
              /\ last.table_name = last'.table_name
              /\ last.table_name \in TableNames)
             => last'.ret_range.start = last.ret_range.start]_vars

\* C6 witness: two ranges of different counts were asked in a row on a table
\* that holds ids, and both start at last_id + 1.
C6_Witness ==
    /\ prev.op = "get_next_id_range"
    /\ last.op = "get_next_id_range"
    /\ last.table_name = prev.table_name
    /\ prev.arg = 2
    /\ last.arg = 1
    /\ metadata[last.table_name].last_id = 2
    /\ prev.ret_range.start = 3
    /\ last.ret_range.start = 3

\* C7: get_existing_id_count on a registered table returns the table's
\* last_id; when that is positive get_random_existing_id returns an integer
\* k with 1 <= k <= last_id; neither call changes the metadata or the file.
C7_CountIsLastIdAndSampleInRange ==
    [][/\ (last'.op = "get_existing_id_count"
           /\ last'.table_name \in TableNames)
          => /\ last'.raised = ""
             /\ last'.ret = metadata[last'.table_name].last_id
             /\ metadata' = metadata
             /\ <<exists, file>>' = <<exists, file>>
       /\ (/\ last'.op = "get_random_existing_id"
           /\ last'.table_name \in TableNames
           /\ metadata[last'.table_name].last_id > 0)
          => /\ last'.raised = ""
             /\ last'.ret >= 1
             /\ last'.ret <= metadata[last'.table_name].last_id
             /\ metadata' = metadata
             /\ <<exists, file>>' = <<exists, file>>]_vars

\* C7 witness: a sample was drawn from a table of two ids, and it is not
\* the largest of them.
C7_Witness ==
    /\ last.op = "get_random_existing_id"
    /\ last.table_name = "users"
    /\ last.raised = ""
    /\ last.pre = 2
    /\ metadata["users"].last_id = 2
    /\ last.ret = 1

\* C8: get_random_existing_id on a registered table whose last_id is 0
\* raises ValueError, returns nothing, and changes no table's last_id.
C8_SampleOfEmptyTableRaises ==
    [][(/\ last'.op = "get_random_existing_id"
        /\ last'.table_name \in TableNames
        /\ metadata[last'.table_name].last_id = 0)
       => /\ last'.raised = "ValueError"
          /\ last'.ret = NoCall.ret
          /\ metadata' = metadata]_vars

\* C8 witness: the sample was asked of products, which holds no id, while
\* users holds some.
C8_Witness ==
    /\ last.op = "get_random_existing_id"
    /\ last.table_name = "products"
    /\ last.raised = "ValueError"
    /\ metadata["products"].last_id = 0
    /\ metadata["users"].last_id = 2

\* C9: a manager created right after save_metadata holds the table names
\* and the last_id of each table that the saving manager held.
C9_SaveThenLoadRoundTrip ==
    [][(last.op = "save_metadata" /\ last'.op = "init")
       => /\ DOMAIN metadata' = DOMAIN metadata
          /\ \A t \in DOMAIN metadata :
                 metadata'[t].last_id = metadata[t].last_id]_vars

\* C9 witness: a manager was loaded from a document that save_metadata
\* wrote (no initial document holds a last_id of 1) and holds what the
\* document holds.
C9_Witness ==
    /\ last.op = "init"
    /\ exists
    /\ file = metadata
    /\ metadata["users"].last_id = 1
    /\ metadata["orders"].last_id = 2

\* C10: right after a load of a legacy document each table that carried a
\* non-empty existing_ids list has last_id = max(existing_ids) (and a table
\* with an empty list keeps its stored last_id); the in-memory entries never
\* carry the key existing_ids, nor do the entries of a document that
\* save_metadata wrote.
C10_LegacyDocumentIsMigrated ==
    /\ \A t \in DOMAIN metadata : DOMAIN metadata[t] = {"last_id"}
    /\ (last.op = "init" /\ exists)
       => \A t \in DOMAIN file :
              "existing_ids" \in DOMAIN file[t]
              => IF file[t].existing_ids = <<>>
                 THEN metadata[t].last_id = file[t].last_id
                 ELSE /\ metadata[t].last_id \in Elems(file[t].existing_ids)
                      /\ \A k \in Elems(file[t].existing_ids) :
                             k <= metadata[t].last_id
    /\ last.op = "save_metadata"
       => /\ exists
          /\ \A t \in DOMAIN file : "existing_ids" \notin DOMAIN file[t]

\* C10 witness: the loaded legacy entry of users lists 2 before 1 under a
\* stale last_id, and the manager holds last_id = 2 for it.
C10_Witness ==
    /\ last.op = "init"
    /\ exists
    /\ "existing_ids" \in DOMAIN file["users"]
    /\ file["users"].existing_ids = <<2, 1>>
    /\ file["users"].last_id = 0
    /\ metadata["users"] = [last_id |-> 2]

\* C11: a manager created while the metadata file does not exist holds
\* exactly the tables users, orders and products, each with last_id = 0.
C11_MissingFileGivesZeroedTables ==
    (last.op = "init" /\ ~exists)
    => /\ DOMAIN metadata = {"users", "orders", "products"}
       /\ \A t \in DOMAIN metadata : metadata[t] = [last_id |-> 0]

\* C11 witness: a manager was created with no file on disk.
C11_Witness ==
    /\ last.op = "init"
    /\ ~exists
    /\ metadata["users"].last_id = 0
    /\ metadata["orders"].last_id = 0
    /\ metadata["products"].last_id = 0

\* C12: every allocator call with a table name that is not registered
\* raises KeyError, and no entry is created for the name.
C12_UnknownTableAlwaysRaises ==
    (/\ last.table_name = UnknownName
     /\ last.op \in {"get_next_id_range", "add_generated_ids",
                     "get_existing_id_count", "get_random_existing_id",
                     "get_existing_ids"})
    => /\ last.raised = "KeyError"
       /\ UnknownName \notin DOMAIN metadata


\* the rows of a list of chunks, in ordinal order
RECURSIVE Concat(_)
Concat(chunks) ==
    IF chunks = <<>> THEN <<>> ELSE Head(chunks) \o Concat(Tail(chunks))

\* C13: for every dataset and every set budget the plan returns chunks whose
\* concatenation in ordinal order is the original row sequence.
C13_ChunksConcatenateToDataset ==
    upload.planned
    => /\ upload.plan_raised = ""
       /\ Concat(upload.chunks) = upload.df

\* C14: for every dataset of N rows and every set budget the plan returns
\* ceil(N / chunk_size) chunks for the estimated chunk_size, none of them
\* empty.
C14_ChunkCountIsCeiling ==
    upload.planned
    => /\ upload.plan_raised = ""
       /\ upload.chunk_size > 0
       /\ Len(upload.chunks) * upload.chunk_size >= Len(upload.df)
       /\ (Len(upload.chunks) - 1) * upload.chunk_size < Len(upload.df)
       /\ \A k \in DOMAIN upload.chunks : upload.chunks[k] /= <<>>

\* C15: chunk_size is at least 1 for every input: the plan ends normally with
\* chunks of at least one row each, also when the budget is smaller than one
\* row's footprint, when the budget is zero and when the sample has no rows.
C15_ChunkSizeAtLeastOne ==
    upload.planned
    => /\ upload.chunk_size >= 1
       /\ upload.raised /= "ValueError"
       /\ \A k \in DOMAIN upload.chunks : Len(upload.chunks[k]) >= 1

\* the ordinal i written with three decimal digits
ThreeDigits(i) ==
    <<DigitChars[((i \div 100) % 10) + 1], DigitChars[((i \div 10) % 10) + 1],
      DigitChars[(i % 10) + 1]>>

\* C16: a chunked upload that returns gives one key per planned chunk, the
\* i-th key (from 1) being {table}/{timestamp}_part_{i, 3 digits}.parquet
\* with the one timestamp of the call, in chunk order.
C16_ChunkKeysAreOrdinalAndShareTimestamp ==
    (upload.op = "upload_dataframe" /\ upload.limit /= NoLimit
     /\ upload.raised = "")
    => /\ Len(upload.keys) = Len(upload.chunks)
       /\ upload.put = upload.keys
       /\ \A i \in DOMAIN upload.keys :
              upload.keys[i] = <<upload.table_name, "/", upload.timestamp,
                                 "_part_">> \o ThreeDigits(i)
                               \o <<".parquet">>

C16_Witness ==
    /\ upload.op = "upload_dataframe" /\ upload.limit /= NoLimit
    /\ upload.raised = ""
    /\ Len(upload.chunks) >= 3
    /\ Len(upload.keys) = Len(upload.chunks)
    /\ upload.chunks[2] /= upload.chunks[3]

\* C17: a run saves the metadata exactly once, after the last table, whatever
\* tables were unknown or failed; nothing is saved before or between tables.
C17_SavedOnceAfterLastTable ==
    /\ run.saves = IF run.pc = "done" THEN 1 ELSE 0
    /\ run.pc = "loop" => ~exists
    /\ run.pc = "done" => /\ Len(run.log) = Len(run.table_names)
                          /\ exists
                          /\ file = metadata
                          /\ last.op = "save_metadata"

C17_Witness ==
    /\ run.pc = "done"
    /\ run.saves = 1
    /\ file = metadata
    /\ \E i, j, k \in DOMAIN run.log :
           /\ run.log[i].outcome = "skipped"
           /\ run.log[j].outcome = "generation_failed"
           /\ run.log[k].outcome = "upload_failed"

\* the table of entry k of the log generated rows: it has rows to generate
\* and, for orders, users and products generated rows earlier in the run
Generates(k) ==
    /\ run.log[k].table_name \in Generators
    /\ run.num_rows > 0
    /\ run.log[k].table_name = "orders"
       => \A parent \in {"users", "products"} :
              \E i \in 1..(k - 1) : /\ run.log[i].table_name = parent
                                    /\ run.log[i].rows /= <<>>

\* C18: an unknown table, a failed generation and a failed upload never stop
\* the run: the tables are attempted in list order up to the last one, and
\* what a table generates does not depend on the failures before it.
C18_FailuresNeverStopTheRun ==
    /\ Len(run.log) = run.i
    /\ run.i <= Len(run.table_names)
    /\ run.pc = "done" => run.i = Len(run.table_names)
    /\ \A k \in DOMAIN run.log :
           /\ run.log[k].table_name = run.table_names[k]
           /\ run.log[k].table_name \notin Generators
              => run.log[k].outcome = "skipped"
           /\ Generates(k)
              => /\ run.log[k].outcome \in {"uploaded", "upload_failed"}
                 /\ run.log[k].rows = RangeList(1, run.num_rows + 1)
           /\ (run.log[k].table_name \in Generators /\ ~Generates(k))
              => /\ run.log[k].outcome = "generation_failed"
                 /\ run.log[k].rows = <<>>

C18_Witness ==
    /\ run.pc = "done"
    /\ Len(run.log) = 4
    /\ run.log[1].outcome = "upload_failed"
    /\ run.log[2].outcome = "skipped"
    /\ run.log[3].outcome = "generation_failed"
    /\ run.log[4].outcome = "uploaded"

\* C19: when users or products has last_id 0, generating orders raises before
\* an order id is allocated: no rows, no upload, the last_id of every table
\* unchanged, and the run goes on to the next table.
C19_OrdersWithoutParentsRaiseFirst ==
    [][(/\ run.pc = "loop"
        /\ run.i < Len(run.table_names)
        /\ run.table_names[run.i + 1] = "orders"
        /\ \/ metadata["users"].last_id = 0
           \/ metadata["products"].last_id = 0)
       => /\ last'.op = "generate_orders"
          /\ last'.raised = "ValueError"
          /\ metadata' = metadata
          /\ issued' = issued
          /\ upload' = upload
          /\ run'.pc = "loop"
          /\ run'.i = run.i + 1
          /\ run'.log[run'.i] = Entry("orders", "generation_failed", <<>>)]_vars

C19_Witness ==
    /\ run.num_rows > 0
    /\ \E k \in DOMAIN run.log :
           /\ run.log[k] = Entry("orders", "generation_failed", <<>>)
           /\ k + 1 \in DOMAIN run.log
           /\ run.log[k + 1].outcome = "uploaded"
           /\ metadata["orders"].last_id = 0
           /\ upload.table_name = run.log[k + 1].table_name

\* C20: no temporary file of a call exists once the call has returned or
\* raised, whatever failed: encoding the sample, measuring it, encoding a
\* file or sending it.
C20_NoTemporaryFileLeft ==
    upload.op = "upload_dataframe" => upload.left = {}

\* C21: every order row written by generate_orders has a user_id in
\* 1..last_id(users) and distinct products in 1..last_id(products), with the
\* last_id values the manager holds in memory when the orders are generated,
\* saved or not; generate_orders changes neither last_id.
C21_OrderRowsReferToExistingIds ==
    [][(last'.op = "generate_orders" /\ last'.raised = "")
       => /\ Len(last'.rows) = Len(last'.ret_list)
          /\ \A k \in DOMAIN last'.rows :
                 LET row == last'.rows[k]
                 IN  /\ row.order_id = last'.ret_list[k]
                     /\ 1 <= row.user_id
                     /\ row.user_id <= metadata["users"].last_id
                     /\ row.products /= <<>>
                     /\ \A i \in DOMAIN row.products :
                            /\ 1 <= row.products[i]
                            /\ row.products[i]
                               <= metadata["products"].last_id
                            /\ \A j \in DOMAIN row.products :
                                   i /= j => row.products[i] /= row.products[j]
          /\ metadata'["users"] = metadata["users"]
          /\ metadata'["products"] = metadata["products"]]_vars

C21_Witness ==
    /\ last.op = "generate_orders"
    /\ last.raised = ""
    /\ ~exists
    /\ metadata["users"].last_id = 2
    /\ metadata["products"].last_id = 2
    /\ Len(last.rows) = 2
    /\ last.rows[1].user_id = 2
    /\ last.rows[1].products = <<2, 1>>
    /\ last.rows[2].user_id = 1

\* C22: when a table is generated and its upload then fails, on the first
\* file or a later one, the ids of its rows stay committed: the manager and
\* the file saved at the end of the run hold last_id advanced by the number
\* of rows, a manager that loads that file allocates only above them, and the
\* files put before the failure are still the ones put.
C22_CommitSurvivesFailedUpload ==
    \A k \in DOMAIN run.log :
        run.log[k].outcome = "upload_failed"
        => LET table_name == run.log[k].table_name
               rows == run.log[k].rows
           IN  /\ Len(rows) = run.num_rows
               /\ rows /= <<>>
               /\ metadata[table_name].last_id = ListMax(rows)
               /\ run.pc = "done"
                  => /\ exists
                     /\ file[table_name].last_id = run.num_rows
                     /\ \A count \in Counts :
                            NextIdRange(load_metadata(exists, file),
                                        table_name, count).start
                            > ListMax(rows)
               /\ k = run.i
                  => /\ upload.table_name = table_name
                     /\ upload.df = rows
                     /\ upload.raised /= ""
                     /\ upload.keys = <<>>
                     /\ Len(upload.put) < Max2(1, Len(upload.chunks))
                     /\ \A i \in DOMAIN upload.put :
                            upload.put[i]
                            = IF upload.limit = NoLimit
                              THEN SingleKey(table_name, upload.timestamp)
                              ELSE ChunkKey(table_name, upload.timestamp,
                                            i - 1)

C22_Witness ==
    /\ run.pc = "done"
    /\ run.i \in DOMAIN run.log
    /\ run.log[run.i].outcome = "upload_failed"
    /\ Len(run.log[run.i].rows) = 2
    /\ Len(upload.put) = 1
    /\ upload.raised = "S3UploadFailedError"
    /\ file[run.log[run.i].table_name].last_id = 2

\* C23: generating 0 rows for a registered table whose parents exist is a
\* valid request: the generator returns an empty dataset without raising and
\* no last_id changes.
C23_ZeroRowsIsValid ==
    (/\ last.op \in {"generate_users", "generate_products", "generate_orders"}
     /\ last.arg = 0
     /\ last.op = "generate_orders"
        => /\ metadata["users"].last_id > 0
           /\ metadata["products"].last_id > 0)
    => /\ last.raised = ""
       /\ last.ret_list = <<>>
       /\ metadata[last.table_name].last_id = last.pre

====
